---- MODULE Spec2Model ----
(***************************************************************************)
(* Model of JSONtoCypher_production.py: the JSON-to-Cypher compiler.       *)
(*                                                                         *)
(* Text is modelled as a sequence of tokens.  A token is either one of the *)
(* characters the code inspects (space, backtick, dot, newline) or an atom *)
(* of text that contains none of them ("a", "name", "MATCH ", "-[:", ...). *)
(* Concatenating token sequences is string concatenation.  A raised        *)
(* exception is the token sequence <<RAISE, message...>>.                  *)
(* Python lists are 0-based; the sequences here are 1-based, so the        *)
(* relationship index i of the code is index i+1 of the model.             *)
(***************************************************************************)
EXTENDS Integers, Sequences, FiniteSets, TLC

\* ------------------------------------------------------------------ bounds
MaxRels == 3         \* relationships of a compiled request
MaxPairs == 3        \* relationships handed to a helper called directly
NumSeeds == 2        \* string-hash seeds an interpreter process may draw

AliasSeq == <<"a", "b", "c", "d", "e", "f", "g", "h", "i", "k">>
LabelSeq == <<"A", "B", "C", "D", "E", "F", "G", "H", "I", "K">>
RelTypeSeq == <<"R1", "R2", "R3", "R4", "R5", "R6">>
\* the aliases of compiled requests
Aliases == {"a", "b", "c"}
Seeds == 0..(NumSeeds - 1)

\* ------------------------------------------------------- sequence helpers
RAISE == "!raise"
NL == "\n"
TICK == "BACKTICK"    \* the backtick character
None == <<>>

Some(x) == <<x>>

Raised(s) == Len(s) > 0 /\ s[1] = RAISE

Raise(msg) == <<RAISE>> \o msg

\* sep.join(parts) for token sequences
RECURSIVE Join(_, _)
Join(sep, parts) ==
    IF parts = <<>> THEN <<>>
    ELSE IF Len(parts) = 1 THEN parts[1]
    ELSE parts[1] \o sep \o Join(sep, Tail(parts))

Range(s) == {s[i] : i \in 1..Len(s)}

\* ascending sequence of a finite set of integers
RECURSIVE SortedSeq(_)
SortedSeq(S) ==
    IF S = {} THEN <<>>
    ELSE LET m == CHOOSE x \in S : \A y \in S : x <= y
         IN <<m>> \o SortedSeq(S \ {m})

\* first raised element of a sequence of token sequences, or <<>>
RECURSIVE FirstRaised(_)
FirstRaised(ss) ==
    IF ss = <<>> THEN <<>>
    ELSE IF Raised(Head(ss)) THEN Head(ss)
    ELSE FirstRaised(Tail(ss))

\* str.strip(ch) on a token sequence
RECURSIVE LStrip(_, _)
LStrip(s, ch) == IF s # <<>> /\ Head(s) = ch THEN LStrip(Tail(s), ch) ELSE s

RECURSIVE RStrip(_, _)
RStrip(s, ch) ==
    IF s # <<>> /\ s[Len(s)] = ch THEN RStrip(SubSeq(s, 1, Len(s) - 1), ch) ELSE s

Strip(s, ch) == RStrip(LStrip(s, ch), ch)

\* index of the first occurrence of the token sequence sep in s, 0 if none
FindSub(s, sep) ==
    LET hits == {i \in 1..(Len(s) - Len(sep) + 1) :
                    SubSeq(s, i, i + Len(sep) - 1) = sep}
    IN IF hits = {} THEN 0 ELSE CHOOSE i \in hits : \A j \in hits : i <= j

\* s.split(sep)[0]
SplitHead(s, sep) ==
    LET k == FindSub(s, sep) IN IF k = 0 THEN s ELSE SubSeq(s, 1, k - 1)

\* s.split(sep, 1)[1] (only used when sep occurs in s)
SplitRest(s, sep) ==
    LET k == FindSub(s, sep) IN SubSeq(s, k + Len(sep), Len(s))

\* a token sequence read as a dictionary key: the alias it spells, or "" when
\* it is not a single atom
AsKey(s) == IF Len(s) = 1 THEN s[1] ELSE ""

\* ------------------------------------------------------- entity model
LabelOf(alias) ==
    LET hits == {i \in 1..Len(AliasSeq) : AliasSeq[i] = alias}
    IN LabelSeq[CHOOSE i \in hits : TRUE]

Node(alias) == [label |-> LabelOf(alias), alias |-> alias]

Relationship(n1, n2, t, opt) == [node1 |-> n1, node2 |-> n2, type |-> t, optional |-> opt]

Condition(f, op, v) == [field |-> f, operator |-> op, value |-> v]

\* {n.alias: n for n in nodes}: a later node of the same alias replaces an
\* earlier one
node_lookup_of(nodes) ==
    [al \in {nodes[i].alias : i \in 1..Len(nodes)} |->
        LET hits == {i \in 1..Len(nodes) : nodes[i].alias = al}
        IN nodes[CHOOSE i \in hits : \A j \in hits : j <= i]]

\* ------------------------------------------------------- validation
\* validate_aliases without the node2 test
validate_aliases_node1_only(nodes, relationships) ==
    LET node_aliases == {nodes[k].alias : k \in 1..Len(nodes)}
        bad == {k \in 1..Len(relationships) : relationships[k].node1 \notin node_aliases}
    IN IF bad = {} THEN <<>>
       ELSE LET k == CHOOSE x \in bad : \A y \in bad : x <= y
            IN Raise(<<"Relationship node1 alias '", relationships[k].node1,
                       "' not found in nodes.">>)

validate_aliases(nodes, relationships) ==
    LET node_aliases == {nodes[k].alias : k \in 1..Len(nodes)}
        bad == {k \in 1..Len(relationships) :
                   relationships[k].node1 \notin node_aliases
                   \/ relationships[k].node2 \notin node_aliases}
    IN IF bad = {} THEN <<>>
       ELSE LET k == CHOOSE x \in bad : \A y \in bad : x <= y
                rel == relationships[k]
            IN IF rel.node1 \notin node_aliases
               THEN Raise(<<"Relationship node1 alias '", rel.node1, "' not found in nodes.">>)
               ELSE Raise(<<"Relationship node2 alias '", rel.node2, "' not found in nodes.">>)

\* re.match on the pattern "anything, backtick, anything, backtick, anything":
\* two backticks somewhere in the field
HasBacktickPair(field) == Cardinality({i \in 1..Len(field) : field[i] = TICK}) >= 2

FieldIsBad(field) == " " \in Range(field) /\ ~HasBacktickPair(field)

validate_field_syntax(fields) ==
    LET bad == {i \in 1..Len(fields) : FieldIsBad(fields[i])}
    IN IF bad = {} THEN <<>>
       ELSE LET k == CHOOSE x \in bad : \A y \in bad : x <= y
            IN Raise(<<"Field '">> \o fields[k] \o <<"' contains spaces and is not backticked.">>)

validate_conditions(conditions) ==
    FirstRaised([i \in 1..Len(conditions) |-> validate_field_syntax(<<conditions[i].field>>)])

\* ------------------------------------------------------- pattern helpers
_fmt_node(alias, node_lookup) ==
    IF alias \in DOMAIN node_lookup
    THEN <<"(", alias, ":", node_lookup[alias].label, ")">>
    ELSE <<"(", alias, ")">>

\* value literals: [t |-> "str" | "bool" | "null" | "num", v |-> text]
fmt_value(v) ==
    IF v.t = "str" THEN <<"'", v.v, "'">>
    ELSE IF v.t = "bool" THEN <<v.v>>
    ELSE IF v.t = "null" THEN <<"null">>
    ELSE <<v.v>>

\* props: sequence of <<key tokens, value>> in dictionary insertion order
_fmt_node_with_props(alias, label, props) ==
    IF props = <<>> THEN <<"(", alias, ":", label, ")">>
    ELSE LET assignments == [i \in 1..Len(props) |->
                                props[i][1] \o <<": ">> \o fmt_value(props[i][2])]
         IN <<"(", alias, ":", label, " {">> \o Join(<<", ">>, assignments) \o <<"})">>

\* ------------------------------------------------------- connectivity
\* rel_pairs: sequence of <<node1, node2, type>>
SharesAlias(p, q) == p[1] = q[1] \/ p[1] = q[2] \/ p[2] = q[1] \/ p[2] = q[2]

\* adj_of comparing only node1 with node1 and node2 with node2
adj_of_same_side(rel_pairs) ==
    [i \in 1..Len(rel_pairs) |->
        {j \in 1..Len(rel_pairs) :
            i # j /\ (rel_pairs[i][1] = rel_pairs[j][1] \/ rel_pairs[i][2] = rel_pairs[j][2])}]

adj_of(rel_pairs) ==
    [i \in 1..Len(rel_pairs) |->
        {j \in 1..Len(rel_pairs) : i # j /\ SharesAlias(rel_pairs[i], rel_pairs[j])}]

\* the deque loop of one component: returns <<comp, seen>>.  adj[u] is a set
\* of small non-negative integers, which CPython iterates in ascending order.
RECURSIVE bfs_component(_, _, _, _)
bfs_component(adj, dq, seen, comp) ==
    IF dq = <<>> THEN <<comp, seen>>
    ELSE LET u == Head(dq)
             fresh == SortedSeq({v \in adj[u] : v \notin seen})
         IN bfs_component(adj, Tail(dq) \o fresh, seen \cup adj[u], Append(comp, u))

RECURSIVE components_from(_, _, _, _, _)
components_from(adj, n, i, seen, comps) ==
    IF i > n THEN comps
    ELSE IF i \in seen THEN components_from(adj, n, i + 1, seen, comps)
    ELSE LET r == bfs_component(adj, <<i>>, seen \cup {i}, <<>>)
         IN components_from(adj, n, i + 1, r[2], Append(comps, r[1]))

_connected_components_on_rels(rel_pairs) ==
    components_from(adj_of(rel_pairs), Len(rel_pairs), 1, {}, <<>>)

\* ------------------------------------------------------- chain builder
NONE == "None"              \* Python None where an alias is expected
COMP_EDGES == "<comp_edges>" \* the list comp_edges used as a value

\* a, b of every edge in order: the order in which the degree dict gets keys
RECURSIVE endpoints_of(_)
endpoints_of(comp_edges) ==
    IF comp_edges = <<>> THEN <<>>
    ELSE <<Head(comp_edges)[1], Head(comp_edges)[2]>> \o endpoints_of(Tail(comp_edges))

degree_of(comp_edges, alias) ==
    LET e == endpoints_of(comp_edges)
    IN Cardinality({i \in 1..Len(e) : e[i] = alias})

\* next((alias for alias, d in degree.items() if d == 1), comp_edges)
first_degree_one(comp_edges) ==
    LET e == endpoints_of(comp_edges)
        hits == {i \in 1..Len(e) : degree_of(comp_edges, e[i]) = 1}
    IN IF hits = {} THEN COMP_EDGES
       ELSE e[CHOOSE i \in hits : \A j \in hits : i <= j]

chain_start(comp_edges, preferred_start) ==
    IF preferred_start \in Range(endpoints_of(comp_edges))
    THEN preferred_start
    ELSE first_degree_one(comp_edges)

\* arrow_of that always draws the forward arrow
arrow_of_forward(edge, current) == <<"-[:", edge[3], "]->">>

arrow_of(edge, current) ==
    IF edge[1] = current THEN <<"-[:", edge[3], "]->">> ELSE <<"<-[:", edge[3], "]-">>

next_of(edge, current) == IF edge[1] = current THEN edge[2] ELSE edge[1]

\* the comma-joined rendering of every edge on its own
simples_of(comp_edges, node_lookup) ==
    Join(<<", ">>,
         [i \in 1..Len(comp_edges) |->
             _fmt_node(comp_edges[i][1], node_lookup)
             \o <<"-[:", comp_edges[i][3], "]->">>
             \o _fmt_node(comp_edges[i][2], node_lookup)])

\* the while loop: used is the set of edge indexes already walked
RECURSIVE chain_walk(_, _, _, _, _)
chain_walk(comp_edges, node_lookup, used, segs, current) ==
    IF Cardinality(used) >= Len(comp_edges) THEN segs
    ELSE LET incident == {ei \in 1..Len(comp_edges) :
                             /\ ei \notin used
                             /\ \/ comp_edges[ei][1] = current
                                \/ comp_edges[ei][2] = current}
         IN IF incident = {} THEN simples_of(comp_edges, node_lookup)
            ELSE LET ei == CHOOSE x \in incident : \A y \in incident : x <= y
                     nxt == next_of(comp_edges[ei], current)
                 IN chain_walk(comp_edges, node_lookup, used \cup {ei},
                               segs \o arrow_of(comp_edges[ei], current)
                                    \o _fmt_node(nxt, node_lookup),
                               nxt)

_chain_component(rel_pairs, comp_idxs, node_lookup, preferred_start) ==
    LET comp_edges == [k \in 1..Len(comp_idxs) |-> rel_pairs[comp_idxs[k]]]
        start == chain_start(comp_edges, preferred_start)
    IN IF start = COMP_EDGES
       THEN Raise(<<"unhashable type: 'list'">>)
       ELSE chain_walk(comp_edges, node_lookup, {}, _fmt_node(start, node_lookup), start)

\* ------------------------------------------------------- match clauses
IsRegular(rel) == ~rel.optional

IsOptional(rel) == rel.optional

pairs_of(rels) == [i \in 1..Len(rels) |-> <<rels[i].node1, rels[i].node2, rels[i].type>>]

node_patterns_of(nodes) ==
    [i \in 1..Len(nodes) |-> <<"(", nodes[i].alias, ":", nodes[i].label, ")">>]

\* regular_of that keeps the optional relationships
regular_of_all(relationships) == relationships

regular_of(relationships) == SelectSeq(relationships, IsRegular)

_build_single_match_clause(nodes, relationships) ==
    LET regular == regular_of(relationships)
        node_lookup == node_lookup_of(nodes)
        rel_pairs == pairs_of(regular)
        comps == _connected_components_on_rels(rel_pairs)
        patterns == [k \in 1..Len(comps) |->
                        _chain_component(rel_pairs, comps[k], node_lookup, NONE)]
        involved == Range(endpoints_of(rel_pairs))
        standalone == node_patterns_of(SelectSeq(nodes, LAMBDA n : n.alias \notin involved))
    IN IF regular = <<>>
       THEN IF nodes # <<>>
            THEN <<"MATCH ">> \o Join(<<", ">>, node_patterns_of(nodes))
            ELSE <<>>
       ELSE IF FirstRaised(patterns) # <<>> THEN FirstRaised(patterns)
       ELSE <<"MATCH ">> \o Join(<<", ">>, patterns \o standalone)

\* ------------------------------------------------------- anchor selection
\* props[key] = value on an insertion-ordered dict kept as a sequence of
\* <<key, value>>
dict_set(d, key, value) ==
    LET hits == {i \in 1..Len(d) : d[i][1] = key}
    IN IF hits = {} THEN Append(d, <<key, value>>)
       ELSE [i \in 1..Len(d) |-> IF i \in hits THEN <<key, value>> ELSE d[i]]

dict_get(d, key) ==
    LET hits == {i \in 1..Len(d) : d[i][1] = key}
    IN IF hits = {} THEN <<>> ELSE d[CHOOSE i \in hits : TRUE][2]

cond_alias(cond) == AsKey(Strip(SplitHead(Strip(cond.field, " "), <<".">>), " "))

cond_prop(cond) == Strip(Strip(SplitRest(Strip(cond.field, " "), <<".">>), " "), TICK)

cond_is_anchor(cond, node_lookup) ==
    /\ "." \in Range(Strip(cond.field, " "))
    /\ cond_alias(cond) \in DOMAIN node_lookup
    /\ cond.operator = "="

\* the loop over where.conditions: props_by_alias as a dict of dicts
RECURSIVE props_by_alias_of(_, _, _)
props_by_alias_of(conditions, node_lookup, acc) ==
    IF conditions = <<>> THEN acc
    ELSE LET cond == Head(conditions)
         IN props_by_alias_of(Tail(conditions), node_lookup,
                IF cond_is_anchor(cond, node_lookup)
                THEN dict_set(acc, cond_alias(cond),
                              dict_set(dict_get(acc, cond_alias(cond)),
                                       cond_prop(cond), cond.value))
                ELSE acc)

\* None, or Some of [alias, label, props]
_extract_anchor_from_where(where, node_lookup) ==
    IF where = None \/ where[1].conditions = <<>> THEN None
    ELSE LET props_by_alias == props_by_alias_of(where[1].conditions, node_lookup, <<>>)
         IN IF Len(props_by_alias) = 1
            THEN Some([alias |-> props_by_alias[1][1],
                       label |-> node_lookup[props_by_alias[1][1]].label,
                       props |-> props_by_alias[1][2]])
            ELSE None

\* list(dict.fromkeys(xs))
RECURSIVE dedup(_, _)
dedup(xs, acc) ==
    IF xs = <<>> THEN acc
    ELSE dedup(Tail(xs), IF Head(xs) \in Range(acc) THEN acc ELSE Append(acc, Head(xs)))

return_alias_of(f) ==
    LET part == Strip(SplitHead(f, <<" ", "AS", " ">>), " ")
    IN IF "." \in Range(part) THEN Strip(SplitHead(part, <<".">>), " ") ELSE part

_extract_return_aliases(ret) ==
    dedup([i \in 1..Len(ret.fields) |-> return_alias_of(ret.fields[i])], <<>>)

PreferredAliases == <<"j", "Job", "c", "Candidate", "r", "Resume", "s", "Skill">>

\* the alias chosen from the return clause, or NONE
chosen_return_alias(return_clause, node_lookup) ==
    LET ret_aliases == SelectSeq(_extract_return_aliases(return_clause),
                                 LAMBDA a : AsKey(a) \in DOMAIN node_lookup)
        unique_ret == dedup([i \in 1..Len(ret_aliases) |-> AsKey(ret_aliases[i])], <<>>)
        hits == {i \in 1..Len(PreferredAliases) : PreferredAliases[i] \in Range(unique_ret)}
    IN IF hits # {} THEN PreferredAliases[CHOOSE i \in hits : \A j \in hits : i <= j]
       ELSE IF Len(unique_ret) = 1 THEN unique_ret[1]
       ELSE NONE

\* ------------------------------------------------------- optional matches
\* Iterating a set of strings visits them in the order of their hashes, which
\* CPython keys by a seed drawn when the interpreter process starts.  The
\* keyed hash is modelled as a multiplication by a seed-dependent factor
\* modulo 7 (seed 0: ascending aliases, seed 1: descending).
HashMult == <<1, 6, 2, 3, 4, 5>>

alias_index(alias) == CHOOSE i \in 1..Len(AliasSeq) : AliasSeq[i] = alias

hash_of(alias, seed) == (alias_index(alias) * HashMult[seed + 1]) % 7

\* the elements of a set of aliases in iteration order
RECURSIVE set_iteration(_, _)
set_iteration(S, seed) ==
    IF S = {} THEN <<>>
    ELSE LET m == CHOOSE x \in S : \A y \in S : hash_of(x, seed) <= hash_of(y, seed)
         IN <<m>> \o set_iteration(S \ {m}, seed)

\* next((x for x in aliases_in_comp if x in bound_aliases), None)
optional_start(aliases_in_comp, bound_aliases, seed) ==
    LET order == set_iteration(aliases_in_comp, seed)
        hits == {i \in 1..Len(order) : order[i] \in bound_aliases}
    IN IF hits = {} THEN NONE ELSE order[CHOOSE i \in hits : \A j \in hits : i <= j]

comp_aliases(pairs, comp) == UNION {{pairs[i][1], pairs[i][2]} : i \in Range(comp)}

\* the OPTIONAL MATCH lines, one per component; a raised chain is kept as the
\* element it replaces
_build_optional_match_components(nodes, optional_rels, bound_aliases, seed) ==
    LET node_lookup == node_lookup_of(nodes)
        opt_pairs == pairs_of(optional_rels)
        comps == _connected_components_on_rels(opt_pairs)
        lines == [k \in 1..Len(comps) |->
                     LET pattern == _chain_component(opt_pairs, comps[k], node_lookup,
                                        optional_start(comp_aliases(opt_pairs, comps[k]),
                                                       bound_aliases, seed))
                     IN IF Raised(pattern) THEN pattern
                        ELSE <<"OPTIONAL MATCH ">> \o pattern]
    IN lines

\* ------------------------------------------------------- pattern builder
optional_of(relationships) == SelectSeq(relationships, IsOptional)

\* build_optimal_patterns up to the optional section: the required lines, the
\* aliases they bind and the anchor found
required_section(nodes, relationships, return_clause, where_clause) ==
    LET node_lookup == node_lookup_of(nodes)
        regular_rels == regular_of(relationships)
        match_line == _build_single_match_clause(nodes, relationships)
        anchor_info == _extract_anchor_from_where(where_clause, node_lookup)
        chosen == chosen_return_alias(return_clause, node_lookup)
    IN IF regular_rels # <<>>
       THEN [raised |-> IF Raised(match_line) THEN match_line ELSE <<>>,
             patterns |-> IF match_line # <<>> THEN <<match_line>> ELSE <<>>,
             bound_aliases |-> Range(endpoints_of(pairs_of(regular_rels))),
             anchor_info |-> None]
       ELSE IF anchor_info # None
       THEN [raised |-> <<>>,
             patterns |-> << <<"MATCH ">> \o _fmt_node_with_props(anchor_info[1].alias,
                                                anchor_info[1].label,
                                                anchor_info[1].props) >>,
             bound_aliases |-> {anchor_info[1].alias},
             anchor_info |-> anchor_info]
       ELSE IF chosen # NONE
       THEN [raised |-> <<>>,
             patterns |-> << <<"MATCH ", "(", chosen, ":", node_lookup[chosen].label, ")">> >>,
             bound_aliases |-> {chosen},
             anchor_info |-> None]
       ELSE [raised |-> <<>>, patterns |-> <<>>, bound_aliases |-> {}, anchor_info |-> None]

\* the rest of build_optimal_patterns: optional lines, the all-nodes fallback
\* and the dropping of empty lines
optional_section(nodes, relationships, patterns, bound_aliases, anchor_info, seed) ==
    LET optional_rels == optional_of(relationships)
        opt_lines == IF optional_rels # <<>>
                     THEN _build_optional_match_components(nodes, optional_rels,
                                                           bound_aliases, seed)
                     ELSE <<>>
        with_opt == patterns \o opt_lines
        all == IF Len(relationships) = 0 /\ anchor_info = None
                  /\ bound_aliases = {} /\ nodes # <<>>
               THEN Append(with_opt, <<"MATCH ">> \o Join(<<", ">>, node_patterns_of(nodes)))
               ELSE with_opt
    IN IF FirstRaised(opt_lines) # <<>> THEN <<FirstRaised(opt_lines)>>
       ELSE SelectSeq(all, LAMBDA p : p # <<>>)

\* ------------------------------------------------------- clause rendering
build_where_clause(where_clause) ==
    <<"WHERE ">> \o
    Join(<<" ", where_clause.type, " ">>,
         [i \in 1..Len(where_clause.conditions) |->
             where_clause.conditions[i].field
             \o <<" ", where_clause.conditions[i].operator, " ">>
             \o fmt_value(where_clause.conditions[i].value)])

build_with_clause(with_clause) ==
    <<"WITH ">> \o
    Join(<<", ">>,
         with_clause.fields \o
         [i \in 1..Len(with_clause.aggregations) |->
             <<with_clause.aggregations[i].function, "(">>
             \o with_clause.aggregations[i].field
             \o <<")", " AS ", with_clause.aggregations[i].alias>>])

build_return_clause(return_clause) ==
    <<"RETURN">> \o (IF return_clause.distinct THEN <<" DISTINCT">> ELSE <<>>)
    \o <<" ">> \o Join(<<", ">>, return_clause.fields)

build_orderby_clause(orderby_clause) ==
    <<"ORDER BY ">> \o orderby_clause.field \o <<" ", orderby_clause.direction>>

\* str(n) for the small integers a limit takes
IntText(n) == <<"0", "1", "2", "3", "4", "5", "6", "7", "8", "9">>[n + 1]

build_limit_clause(limit) == <<"LIMIT ", IntText(limit)>>

\* ------------------------------------------------------- compiler entry point
FAIL_MARK == "X Error: "   \* the failure marker that prefixes an error message

\* lines 382-385: the validations, in order; <<>> or the first exception
validate_request(r) ==
    FirstRaised(<<validate_aliases(r.nodes, r.relationships),
                  IF r.whereClause # None
                  THEN validate_conditions(r.whereClause[1].conditions)
                  ELSE <<>>,
                  validate_field_syntax(r.returnClause.fields)>>)

\* lines 387-418 after the match clause is known: query_parts
\* query_parts_of testing the limit for truth instead of for None
query_parts_of_truthy_limit(r, match_clause) ==
    (IF match_clause # <<>> THEN <<match_clause>> ELSE <<>>)
    \o (IF r.whereClause # None THEN <<build_where_clause(r.whereClause[1])>> ELSE <<>>)
    \o (IF r.with_ # None THEN <<build_with_clause(r.with_[1])>> ELSE <<>>)
    \o (IF r.withClause # None THEN <<build_where_clause(r.withClause[1])>> ELSE <<>>)
    \o <<build_return_clause(r.returnClause)>>
    \o (IF r.orderBy # None THEN <<build_orderby_clause(r.orderBy[1])>> ELSE <<>>)
    \o (IF r.limit # None /\ r.limit[1] # 0 THEN <<build_limit_clause(r.limit[1])>> ELSE <<>>)

query_parts_of(r, match_clause) ==
    (IF match_clause # <<>> THEN <<match_clause>> ELSE <<>>)
    \o (IF r.whereClause # None THEN <<build_where_clause(r.whereClause[1])>> ELSE <<>>)
    \o (IF r.with_ # None THEN <<build_with_clause(r.with_[1])>> ELSE <<>>)
    \o (IF r.withClause # None THEN <<build_where_clause(r.withClause[1])>> ELSE <<>>)
    \o <<build_return_clause(r.returnClause)>>
    \o (IF r.orderBy # None THEN <<build_orderby_clause(r.orderBy[1])>> ELSE <<>>)
    \o (IF r.limit # None THEN <<build_limit_clause(r.limit[1])>> ELSE <<>>)

error_text(exc) == <<FAIL_MARK>> \o Tail(exc)

\* ------------------------------------------------------- requests
VStr(x) == [t |-> "str", v |-> x]
VNum(x) == [t |-> "num", v |-> x]
VBool(x) == [t |-> "bool", v |-> x]

F_a_name == <<"a", ".", "name">>
F_b_name == <<"b", ".", "name">>
F_c == <<"c">>
F_spaced == <<"first", " ", "name">>
F_ticked == <<"a", ".", TICK, "first", " ", "name", TICK>>
F_onetick == <<TICK, "first", " ", "name">>

WhereClause(t, conds) == [type |-> t, conditions |-> conds]

WhereOptions ==
    { WhereClause("AND", <<Condition(F_a_name, "=", VStr("X"))>>),
      WhereClause("AND", <<Condition(F_a_name, "=", VStr("X")),
                           Condition(F_ticked, "=", VNum("30"))>>),
      WhereClause("OR", <<Condition(F_a_name, "=", VStr("X")),
                          Condition(F_b_name, "=", VBool("true"))>>),
      WhereClause("AND", <<Condition(F_b_name, ">", VNum("5"))>>),
      WhereClause("AND", <<Condition(F_spaced, "=", VStr("X"))>>),
      WhereClause("AND", <<>>) }

WithOptions ==
    { [fields |-> <<F_a_name>>, aggregations |-> <<>>],
      [fields |-> <<F_spaced>>, aggregations |-> <<>>],
      [fields |-> <<<<"a">>>>,
       aggregations |-> <<[function |-> "count", field |-> <<"b">>, alias |-> "n"]>>] }

ReturnClause(fs, d) == [fields |-> fs, distinct |-> d]

ReturnOptions ==
    { ReturnClause(<<F_a_name>>, FALSE),
      ReturnClause(<<F_a_name, F_c>>, TRUE),
      ReturnClause(<<F_b_name>>, FALSE),
      ReturnClause(<<F_a_name, F_onetick>>, FALSE),
      ReturnClause(<<F_ticked>>, FALSE) }

OrderOptions == { [field |-> F_a_name, direction |-> "DESC"] }

LimitOptions == {0, 5}

Opt(S) == {None} \cup {Some(x) : x \in S}

CypherQuery(nodes, rels, where, with, withClause, ret, orderBy, limit) ==
    [nodes |-> nodes, relationships |-> rels, whereClause |-> where, with_ |-> with,
     withClause |-> withClause, returnClause |-> ret, orderBy |-> orderBy, limit |-> limit]

nodes_prefix(k) == [i \in 1..k |-> Node(AliasSeq[i])]

AliasPairs == Aliases \X Aliases

\* sequences of at most n alias pairs
RECURSIVE PairLists(_)
PairLists(n) ==
    IF n = 0 THEN {<<>>}
    ELSE LET shorter == PairLists(n - 1)
         IN shorter \cup {Append(l, p) : l \in {x \in shorter : Len(x) = n - 1}, p \in AliasPairs}

\* the relationships of a request: mandatory ones first, the type of each one
\* named after its position
rels_of(mand, opt) ==
    [i \in 1..(Len(mand) + Len(opt)) |->
        IF i <= Len(mand)
        THEN Relationship(mand[i][1], mand[i][2], RelTypeSeq[i], FALSE)
        ELSE Relationship(opt[i - Len(mand)][1], opt[i - Len(mand)][2], RelTypeSeq[i], TRUE)]

NoLoops(l) == \A i \in 1..Len(l) : l[i][1] # l[i][2]

AllNodes == nodes_prefix(Cardinality(Aliases))

\* requests that vary the graph: every alias declared, no self-loop
GraphRequests ==
    UNION {{ CypherQuery(AllNodes, rels_of(mand, opt), None, None, None,
                         ReturnClause(<<F_a_name>>, FALSE), None, None) :
                opt \in {l \in PairLists(MaxRels - Len(mand)) : NoLoops(l)} } :
           mand \in {l \in PairLists(MaxRels) : NoLoops(l)}}

\* requests that vary the declared nodes, self-loops included
NodeRequests ==
    { CypherQuery(nodes_prefix(k), rels_of(mand, opt), None, None, None,
                  ReturnClause(<<F_a_name>>, FALSE), None, None) :
        k \in 0..Cardinality(Aliases), mand \in PairLists(1), opt \in PairLists(1) }

\* requests without mandatory relationships, which select an anchor
AnchorRequests ==
    { CypherQuery(AllNodes, rels_of(<<>>, opt), where, None, None,
                  ret, None, None) :
        opt \in PairLists(1), where \in Opt(WhereOptions), ret \in ReturnOptions }

\* requests that vary the clauses
ClauseRequests ==
    { CypherQuery(nodes_prefix(2), rels_of(mand, <<>>), where, with, withClause,
                  ret, orderBy, limit) :
        mand \in {<<>>, << <<"a", "b">> >>},
        where \in Opt(WhereOptions), with \in Opt(WithOptions),
        withClause \in Opt({WhereClause("AND", <<Condition(F_spaced, "=", VNum("1"))>>),
                            WhereClause("AND", <<Condition(<<"n">>, ">", VNum("1"))>>)}),
        ret \in {ReturnClause(<<F_a_name>>, FALSE), ReturnClause(<<F_a_name, F_spaced>>, TRUE)},
        orderBy \in Opt(OrderOptions), limit \in Opt(LimitOptions) }

Requests == GraphRequests \cup NodeRequests \cup AnchorRequests \cup ClauseRequests

\* ------------------------------------------------------- state
VARIABLES
    hashSeed,       \* the string-hash seed of the running interpreter process,
                    \* UNSEEDED until the process first iterates a set of strings
    pc,             \* Idle, Validating, Assembling, AssemblingOptional, Rendering, Done, Failed
    req,            \* the request being compiled (None when idle)
    optimize,       \* the optimize flag of the call
    patterns,       \* build_optimal_patterns: pattern lines so far
    bound_aliases,  \* build_optimal_patterns: aliases bound so far
    anchor_info,    \* build_optimal_patterns: the anchor found, or None
    match_clause,   \* the match section once assembled
    out,            \* the returned string
    firstOut,       \* None, or Some of the string returned the first time
    call            \* the last direct call of a helper: its arguments and result

vars == <<hashSeed, pc, req, optimize, patterns, bound_aliases, anchor_info,
          match_clause, out, firstOut, call>>

UNSEEDED == 0 - 1

NoCall == [fn |-> "none", rel_pairs |-> <<>>, comp_idxs |-> <<>>,
           preferred_start |-> NONE, result |-> <<>>]

Init ==
    /\ hashSeed = UNSEEDED
    /\ pc = "Idle"
    /\ req = None
    /\ optimize = TRUE
    /\ patterns = <<>>
    /\ bound_aliases = {}
    /\ anchor_info = None
    /\ match_clause = <<>>
    /\ out = <<>>
    /\ firstOut = None
    /\ call = NoCall

\* convert_json_to_cypher(json_data, optimize) is called
Submit ==
    /\ pc = "Idle"
    /\ call = NoCall
    /\ \E r \in Requests, o \in BOOLEAN :
          /\ req' = Some(r)
          /\ optimize' = o
    /\ pc' = "Validating"
    /\ patterns' = <<>>
    /\ bound_aliases' = {}
    /\ anchor_info' = None
    /\ match_clause' = <<>>
    /\ out' = <<>>
    /\ firstOut' = None
    /\ call' = NoCall
    /\ UNCHANGED hashSeed

Fail(exc) ==
    /\ pc' = "Failed"
    /\ out' = error_text(exc)

\* lines 381-385
Validate ==
    /\ pc = "Validating"
    /\ LET exc == validate_request(req[1])
       IN IF exc # <<>>
          THEN Fail(exc)
          ELSE pc' = "Assembling" /\ out' = out
    /\ UNCHANGED <<hashSeed, req, optimize, patterns, bound_aliases, anchor_info,
                   match_clause, firstOut, call>>

\* line 397: optimize is off
AssembleSingle ==
    /\ pc = "Assembling"
    /\ ~optimize
    /\ LET m == _build_single_match_clause(req[1].nodes, req[1].relationships)
       IN IF Raised(m)
          THEN Fail(m) /\ match_clause' = match_clause
          ELSE pc' = "Rendering" /\ match_clause' = m /\ out' = out
    /\ UNCHANGED <<hashSeed, req, optimize, patterns, bound_aliases, anchor_info,
                   firstOut, call>>

\* lines 325-329: optimize is on and the request has no relationships
AssembleNodesOnly ==
    /\ pc = "Assembling"
    /\ optimize
    /\ Len(req[1].relationships) = 0
    /\ match_clause' = IF req[1].nodes # <<>>
                       THEN <<"MATCH ">> \o Join(<<", ">>, node_patterns_of(req[1].nodes))
                       ELSE <<>>
    /\ pc' = "Rendering"
    /\ UNCHANGED <<hashSeed, req, optimize, patterns, bound_aliases, anchor_info,
                   out, firstOut, call>>

\* lines 274-306: the required section of build_optimal_patterns
AssembleRequired ==
    /\ pc = "Assembling"
    /\ optimize
    /\ Len(req[1].relationships) > 0
    /\ LET r == required_section(req[1].nodes, req[1].relationships,
                                 req[1].returnClause, req[1].whereClause)
       IN IF r.raised # <<>>
          THEN Fail(r.raised) /\ UNCHANGED <<patterns, bound_aliases, anchor_info>>
          ELSE /\ pc' = "AssemblingOptional"
               /\ patterns' = r.patterns
               /\ bound_aliases' = r.bound_aliases
               /\ anchor_info' = r.anchor_info
               /\ out' = out
    /\ UNCHANGED <<hashSeed, req, optimize, match_clause, firstOut, call>>

\* lines 308-316 and 332: the optional section, then the lines are joined.
\* Line 252 iterates a set of aliases: the seed the process drew at its start
\* shows here for the first time.
AssembleOptional ==
    /\ pc = "AssemblingOptional"
    /\ \E seed \in (IF hashSeed = UNSEEDED /\ optional_of(req[1].relationships) # <<>>
                    THEN Seeds ELSE {hashSeed}) :
          /\ hashSeed' = seed
          /\ LET ps == optional_section(req[1].nodes, req[1].relationships, patterns,
                                        bound_aliases, anchor_info, seed)
             IN IF FirstRaised(ps) # <<>>
                THEN Fail(FirstRaised(ps)) /\ UNCHANGED <<patterns, match_clause>>
                ELSE /\ pc' = "Rendering"
                     /\ patterns' = ps
                     /\ match_clause' = Join(<<NL>>, ps)
                     /\ out' = out
    /\ UNCHANGED <<req, optimize, bound_aliases, anchor_info, firstOut, call>>

\* lines 399-418
Render ==
    /\ pc = "Rendering"
    /\ out' = Join(<<NL>>, query_parts_of(req[1], match_clause))
    /\ pc' = "Done"
    /\ UNCHANGED <<hashSeed, req, optimize, patterns, bound_aliases, anchor_info,
                   match_clause, firstOut, call>>

Returned == pc \in {"Done", "Failed"}

\* the caller compiles the same request again, with the same flag
Recompile ==
    /\ Returned
    /\ firstOut = None
    /\ firstOut' = Some(out)
    /\ pc' = "Validating"
    /\ patterns' = <<>>
    /\ bound_aliases' = {}
    /\ anchor_info' = None
    /\ match_clause' = <<>>
    /\ out' = <<>>
    /\ UNCHANGED <<hashSeed, req, optimize, call>>

\* the interpreter exits and a new process starts, which draws its own seed
RestartProcess ==
    /\ Returned
    /\ firstOut = None
    /\ hashSeed # UNSEEDED
    /\ hashSeed' = UNSEEDED
    /\ UNCHANGED <<pc, req, optimize, patterns, bound_aliases, anchor_info,
                   match_clause, out, firstOut, call>>

\* the caller is done with the request and the process ends
Discard ==
    /\ Returned
    /\ pc' = "Idle"
    /\ req' = None
    /\ optimize' = TRUE
    /\ patterns' = <<>>
    /\ bound_aliases' = {}
    /\ anchor_info' = None
    /\ match_clause' = <<>>
    /\ out' = <<>>
    /\ firstOut' = None
    /\ hashSeed' = UNSEEDED
    /\ UNCHANGED call

\* ------------------------------------------------------- direct helper calls
\* relationship triples whose type is named after their position
typed_pairs(l) == [i \in 1..Len(l) |-> <<l[i][1], l[i][2], RelTypeSeq[i]>>]

\* how many aliases of AliasSeq the list l uses
used_aliases(l) == Cardinality(Range(endpoints_of(l)))

\* Lists of at most n alias pairs in which the aliases are named a, b, c, ...
\* in the order of their first appearance.  The helpers use an alias only to
\* compare it with another one, so every list of pairs is one of these up to
\* the names of its aliases.
RECURSIVE CanonicalLists(_)
CanonicalLists(n) ==
    IF n = 0 THEN {<<>>}
    ELSE LET shorter == CanonicalLists(n - 1)
         IN shorter \cup
            UNION {{Append(l, <<AliasSeq[x], AliasSeq[y]>>) :
                        x \in 1..(used_aliases(l) + 1),
                        y \in 1..(used_aliases(l) + 2)} :
                   l \in {z \in shorter : Len(z) = n - 1}}

IsCanonical(l) ==
    LET e == endpoints_of(l)
    IN \A i \in 1..Len(e) :
          alias_index(e[i]) <= Cardinality({e[j] : j \in 1..(i - 1)}) + 1

RelPairInputs == {typed_pairs(l) : l \in {z \in CanonicalLists(MaxPairs) : IsCanonical(z)}}

Reverse(l) == [i \in 1..Len(l) |-> l[Len(l) + 1 - i]]

AliasesOfList(rp) == Range(endpoints_of(rp))

CallConnectedComponents ==
    /\ pc = "Idle"
    /\ call = NoCall
    /\ \E rp \in RelPairInputs :
          call' = [fn |-> "components", rel_pairs |-> rp, comp_idxs |-> <<>>,
                   preferred_start |-> NONE,
                   result |-> _connected_components_on_rels(rp)]
    /\ UNCHANGED <<hashSeed, pc, req, optimize, patterns, bound_aliases, anchor_info,
                   match_clause, out, firstOut>>

\* _chain_component on one component of rel_pairs, its indexes as the
\* connectivity analysis returns them or the other way round: rel_pairs ranges
\* over the lists of every order, so the edges of a component come in every
\* order
CallChainComponent ==
    /\ pc = "Idle"
    /\ call = NoCall
    /\ \E rp \in RelPairInputs \ {<<>>} :
       \E k \in 1..Len(_connected_components_on_rels(rp)) :
       \E idxs \in {_connected_components_on_rels(rp)[k],
                     Reverse(_connected_components_on_rels(rp)[k])} :
       \E pref \in AliasesOfList(rp) \cup {NONE, AliasSeq[Len(AliasSeq)]} :
          call' = [fn |-> "chain", rel_pairs |-> rp, comp_idxs |-> idxs,
                   preferred_start |-> pref,
                   result |-> _chain_component(rp, idxs,
                                               node_lookup_of(nodes_prefix(Len(AliasSeq) - 1)),
                                               pref)]
    /\ UNCHANGED <<hashSeed, pc, req, optimize, patterns, bound_aliases, anchor_info,
                   match_clause, out, firstOut>>

\* the helper's result has been looked at
CallReturn ==
    /\ call # NoCall
    /\ call' = NoCall
    /\ UNCHANGED <<hashSeed, pc, req, optimize, patterns, bound_aliases, anchor_info,
                   match_clause, out, firstOut>>

Next ==
    \/ Submit
    \/ Validate
    \/ AssembleSingle
    \/ AssembleNodesOnly
    \/ AssembleRequired
    \/ AssembleOptional
    \/ Render
    \/ Recompile
    \/ RestartProcess
    \/ Discard
    \/ CallConnectedComponents
    \/ CallChainComponent
    \/ CallReturn

Spec == Init /\ [][Next]_vars

\* ------------------------------------------------------- reading a rendering
\* text.split(newline)
RECURSIVE Lines(_)
Lines(s) ==
    IF NL \notin Range(s) THEN <<s>>
    ELSE <<SplitHead(s, <<NL>>)>> \o Lines(SplitRest(s, <<NL>>))

ArrowStarts(p) == {i \in 1..Len(p) : p[i] \in {"-[:", "<-[:"}}

\* the alias of the node pattern that ends just before position i
LeftAlias(p, i) ==
    LET opens == {j \in 1..(i - 1) : p[j] = "("}
    IN p[(CHOOSE j \in opens : \A k \in opens : k <= j) + 1]

\* the alias of the node pattern that follows the arrow starting at i
RightAlias(p, i) == p[i + 4]

\* the relationship <<node1, node2, type>> that the arrow starting at i states
DecodedEdge(p, i) ==
    IF p[i] = "-[:"
    THEN <<LeftAlias(p, i), RightAlias(p, i), p[i + 1]>>
    ELSE <<RightAlias(p, i), LeftAlias(p, i), p[i + 1]>>

\* every edge is stated by exactly as many arrows as it occurs in edges, and
\* no arrow states anything else
RendersExactly(p, edges) ==
    \A e \in Range(edges) \cup {DecodedEdge(p, i) : i \in ArrowStarts(p)} :
        Cardinality({i \in ArrowStarts(p) : DecodedEdge(p, i) = e})
            = Cardinality({k \in 1..Len(edges) : edges[k] = e})

\* a node pattern with an arrow on both sides
HasMultiHop(p) ==
    \E j \in ArrowStarts(p) :
        LET opens == {k \in 1..(j - 1) : p[k] = "("}
            o == CHOOSE k \in opens : \A m \in opens : m <= k
        IN o > 1 /\ p[o - 1] \in {"]->", "]-"}

AliasesOf(edges) == Range(endpoints_of(edges))

\* relationships i and j are linked by a chain of shared aliases
RECURSIVE LinkedTo(_, _)
LinkedTo(rel_pairs, S) ==
    LET T == S \cup {j \in 1..Len(rel_pairs) :
                        \E i \in S : SharesAlias(rel_pairs[i], rel_pairs[j])}
    IN IF T = S THEN S ELSE LinkedTo(rel_pairs, T)

\* two aliases of degree 1, every other alias of degree 2
IsSimplePath(edges) ==
    /\ Cardinality({a \in AliasesOf(edges) : degree_of(edges, a) = 1}) = 2
    /\ \A a \in AliasesOf(edges) : degree_of(edges, a) \in {1, 2}

CallEdges == [k \in 1..Len(call.comp_idxs) |-> call.rel_pairs[call.comp_idxs[k]]]

\* ------------------------------------------------------- claims
\* C8: _connected_components_on_rels returns a partition of the relationship
\* indexes: every index is in exactly one component, and two indexes are in
\* the same component exactly when a chain of shared aliases links them.
C8_ConnectivityPartition ==
    call.fn = "components" =>
        LET rp == call.rel_pairs
            comps == call.result
            Occurrences(i) == {<<k, m>> \in (1..Len(comps)) \X (1..Len(rp)) :
                                  m <= Len(comps[k]) /\ comps[k][m] = i}
        IN /\ \A k \in 1..Len(comps) : Range(comps[k]) \subseteq 1..Len(rp)
           /\ \A i \in 1..Len(rp) : Cardinality(Occurrences(i)) = 1
           /\ \A i, j \in 1..Len(rp) :
                 (\E k \in 1..Len(comps) : {i, j} \subseteq Range(comps[k]))
                    <=> j \in LinkedTo(rp, {i})

\* C8 witness: a component holding two relationships that share no alias and
\* are linked only through a third one.
C8_Witness ==
    /\ call.fn = "components"
    /\ \E k \in 1..Len(call.result) : \E i, j \in Range(call.result[k]) :
          /\ i # j
          /\ ~SharesAlias(call.rel_pairs[i], call.rel_pairs[j])

\* C9: for a component that is a simple path over N aliases, in any order of
\* its relationships and with any preferred start, _chain_component returns a
\* pattern with exactly N-1 arrows that states every edge exactly once, each
\* arrow pointing from the relationship's node1 to its node2.
C9_SimplePathChaining ==
    (call.fn = "chain" /\ IsSimplePath(CallEdges)) =>
        /\ ~Raised(call.result)
        /\ Cardinality(ArrowStarts(call.result)) = Cardinality(AliasesOf(CallEdges)) - 1
        /\ RendersExactly(call.result, CallEdges)

\* C9 witness: a simple path of at least two edges, handed over out of order,
\* whose walk leaves a relationship by its node2 (a reverse arrow).
C9_Witness ==
    /\ call.fn = "chain"
    /\ IsSimplePath(CallEdges)
    /\ Len(CallEdges) >= 2
    /\ call.comp_idxs[1] > call.comp_idxs[2]
    /\ "<-[:" \in Range(call.result)
    /\ "-[:" \in Range(call.result)

\* C10: for a component in which no alias has degree 1 and whose preferred
\* start is absent or outside the component, the start chosen is an alias of
\* the component and _chain_component returns a pattern that covers every
\* edge, without failing.
C10_StartAliasFallback ==
    (/\ call.fn = "chain"
     /\ \A a \in AliasesOf(CallEdges) : degree_of(CallEdges, a) # 1
     /\ call.preferred_start \notin AliasesOf(CallEdges)) =>
        /\ chain_start(CallEdges, call.preferred_start) \in AliasesOf(CallEdges)
        /\ ~Raised(call.result)
        /\ RendersExactly(call.result, CallEdges)

Declared(r) == {r.nodes[i].alias : i \in 1..Len(r.nodes)}

HasDangling(r) ==
    \E i \in 1..Len(r.relationships) :
        \/ r.relationships[i].node1 \notin Declared(r)
        \/ r.relationships[i].node2 \notin Declared(r)

QueryTokens ==
    {"MATCH ", "OPTIONAL MATCH ", "WHERE ", "WITH ", "RETURN", "ORDER BY ", "LIMIT ", NL}

IsFailureOnly(text) ==
    /\ text # <<>>
    /\ text[1] = FAIL_MARK
    /\ Range(text) \cap QueryTokens = {}

\* the '=' conditions of the form alias.property of a filter clause
EqualityConditions(where) ==
    SelectSeq(where.conditions,
              LAMBDA c : c.operator = "=" /\ "." \in Range(Strip(c.field, " ")))

\* C1: with optimization on, no relationships and a filter clause whose '='
\* conditions alias.property all name one declared alias, the match section is
\* the single line MATCH (alias:Label {prop: value, ...}).
C1_AnchorOnly ==
    (/\ pc = "Done"
     /\ optimize
     /\ req[1].relationships = <<>>
     /\ req[1].whereClause # None
     /\ EqualityConditions(req[1].whereClause[1]) # <<>>
     /\ \E al \in Declared(req[1]) :
           \A i \in 1..Len(EqualityConditions(req[1].whereClause[1])) :
               cond_alias(EqualityConditions(req[1].whereClause[1])[i]) = al) =>
        LET anchor == _extract_anchor_from_where(req[1].whereClause,
                                                 node_lookup_of(req[1].nodes))[1]
        IN /\ match_clause = <<"MATCH ">> \o
                 _fmt_node_with_props(anchor.alias, anchor.label, anchor.props)
           /\ Lines(out)[1] = match_clause

\* the components of the optional relationships of r, as sequences of edges
OptionalComponents(r) ==
    LET opt_pairs == pairs_of(optional_of(r.relationships))
        comps == _connected_components_on_rels(opt_pairs)
    IN {[k \in 1..Len(comps[c]) |-> opt_pairs[comps[c][k]]] : c \in 1..Len(comps)}

\* line is OPTIONAL MATCH followed by one chain that starts at an alias of
\* bound and states the edges exactly
IsAnchoredChainLine(line, edges, bound) ==
    /\ Len(line) >= 3
    /\ line[1] = "OPTIONAL MATCH "
    /\ ", " \notin Range(line)
    /\ line[3] \in bound
    /\ RendersExactly(line, edges)

\* C2: in optimized mode every component of optional relationships that holds
\* an alias bound by the required section is emitted as its own OPTIONAL MATCH
\* line, a chain that starts at a bound alias, wherever that alias sits.
C2_OptionalAttachment ==
    (Returned /\ optimize) =>
        \A edges \in OptionalComponents(req[1]) :
            AliasesOf(edges) \cap bound_aliases # {} =>
                \E i \in 1..Len(Lines(out)) :
                    IsAnchoredChainLine(Lines(out)[i], edges, bound_aliases)

\* C3: a request with a relationship whose node1 or node2 is not a declared
\* alias ends in Failed in either mode: it never gets past validation, nothing
\* is assembled, and what is returned is the failure message alone.
C3_ReferentialIntegrity ==
    (req # None /\ HasDangling(req[1])) =>
        /\ pc \in {"Validating", "Failed"}
        /\ patterns = <<>>
        /\ match_clause = <<>>
        /\ pc = "Failed" => IsFailureOnly(out)

\* C3 witness: optimization off, the dangling endpoint is a node2 whose node1
\* is declared, and the call has returned.
C3_Witness ==
    /\ pc = "Failed"
    /\ ~optimize
    /\ \E i \in 1..Len(req[1].relationships) :
          /\ req[1].relationships[i].node1 \in Declared(req[1])
          /\ req[1].relationships[i].node2 \notin Declared(req[1])
    /\ IsFailureOnly(out)

\* the fields field-syntax validation is claimed to cover
CheckedFields(r) ==
    Range(r.returnClause.fields)
    \cup (IF r.with_ = None THEN {} ELSE Range(r.with_[1].fields))
    \cup (IF r.whereClause = None THEN {}
          ELSE {r.whereClause[1].conditions[i].field :
                   i \in 1..Len(r.whereClause[1].conditions)})
    \cup (IF r.withClause = None THEN {}
          ELSE {r.withClause[1].conditions[i].field :
                   i \in 1..Len(r.withClause[1].conditions)})

\* C4: if a return field, a WITH field, a filter condition's field or a legacy
\* secondary filter condition's field has whitespace and no backtick-delimited
\* segment, compilation fails and no query text is returned.
C4_FieldSyntaxValidation ==
    (Returned /\ \E f \in CheckedFields(req[1]) : FieldIsBad(f)) =>
        pc = "Failed" /\ IsFailureOnly(out)

\* the first token of every line, after the lines of the match section
ClauseKeywords(text) ==
    LET lines == Lines(text)
        kw == [i \in 1..Len(lines) |-> IF lines[i] = <<>> THEN "" ELSE lines[i][1]]
        later == {i \in 1..Len(kw) : kw[i] \notin {"MATCH ", "OPTIONAL MATCH "}}
        first == IF later = {} THEN Len(kw) + 1
                 ELSE CHOOSE i \in later : \A j \in later : i <= j
    IN SubSeq(kw, first, Len(kw))

\* C5: a successful compilation returns its lines in the order match section,
\* filter, WITH, legacy filter, RETURN, ORDER BY, LIMIT; RETURN is there once,
\* and every other clause once if the request has it (a limit of 0 included)
\* and not at all if it has not.
C5_ClauseOrder ==
    pc = "Done" =>
        ClauseKeywords(out) =
            (IF req[1].whereClause # None THEN <<"WHERE ">> ELSE <<>>)
            \o (IF req[1].with_ # None THEN <<"WITH ">> ELSE <<>>)
            \o (IF req[1].withClause # None THEN <<"WHERE ">> ELSE <<>>)
            \o <<"RETURN">>
            \o (IF req[1].orderBy # None THEN <<"ORDER BY ">> ELSE <<>>)
            \o (IF req[1].limit # None THEN <<"LIMIT ">> ELSE <<>>)

\* C5 witness: every clause is present, the limit is 0, and a match line
\* comes first.
C5_Witness ==
    /\ pc = "Done"
    /\ req[1].whereClause # None
    /\ req[1].with_ # None
    /\ req[1].withClause # None
    /\ req[1].orderBy # None
    /\ req[1].limit = Some(0)
    /\ Len(Lines(out)) = 7
    /\ Lines(out)[1][1] = "MATCH "

\* C6: compiling the same request twice with the same optimize flag returns
\* the same text, also when an optional component holds several bound aliases.
C6_Determinism ==
    (Returned /\ firstOut # None) => out = firstOut[1]

IntroducedAliases(ps) ==
    UNION {{ps[k][i + 1] : i \in {j \in 1..Len(ps[k]) : ps[k][j] = "("}} :
              k \in 1..Len(ps)}

\* C11: with optimization on, when the optional components are about to be
\* assembled, the bound aliases are exactly the aliases that the required
\* MATCH lines emitted so far introduce.
C11_BoundAliasTracking ==
    (optimize /\ pc = "AssemblingOptional") =>
        bound_aliases = IntroducedAliases(patterns)

====
